---- MODULE Spec2Model ----
(***************************************************************************)
(* dir_compress_util: the archive-building pipeline.                       *)
(*                                                                         *)
(* Two orchestrations are modelled:                                        *)
(*   "fanout"  : encode_tar_bz (src/src/encode.rs), rayon workers sharing  *)
(*               an Arc<Mutex<tar::Builder>>;                              *)
(*   "channel" : process_tar_entries (src/src/processing.rs), a walker     *)
(*               thread sending entries over an mpsc channel to one        *)
(*               consumer that owns the tar::Builder.                      *)
(* The environment may change the length of a file between a worker's     *)
(* stat and its read of that file, and may fail a stat, open, read or      *)
(* append with an I/O error; the structure of the tree is fixed.           *)
(*                                                                         *)
(* Three specifications:                                                   *)
(*   Spec         : both orchestrations, increment_total_progress as one   *)
(*                  step;                                                  *)
(*   SpecProgress : the tracker of src/src/progress.rs lock by lock, with  *)
(*                  concurrent callers and the update_eta thread;          *)
(*   SpecLive     : the channel run with both renderer threads, under the  *)
(*                  fairness of its threads.                               *)
(***************************************************************************)
EXTENDS Integers, Sequences, FiniteSets, TLC

\* ------------------------------------------------------------ bounds
\* Nodes below the source root in an enumerated tree.
MaxNodes == 2
\* Threads of the rayon pool.
NumWorkers == 2
\* Per-entry I/O errors the environment may inject in one run.
MaxFaults == 1
\* Changes of a file's length the environment may make in one run.
MaxChanges == 1

\* Concurrent callers of increment_total_progress in the tracker's own
\* specification.
MaxCalls == 2
\* Entries already completed when the tracker's specification starts from a
\* run under way.
BaseCount == 9
\* Calls of increment_total_progress in one behaviour of the tracker's
\* specification.
MaxSamples == 3

\* ------------------------------------------------------------ program constants
\* Duration::from_millis(10): a shorter elapsed time is no sample.
TooFastMs == 10
\* Duration::from_secs(30), in ms: a longer elapsed time is no sample.
TooSlowMs == 30000
\* smoothing_scaler = 0.2 = 1 / SmoothingDen.
SmoothingDen == 5
\* std::cmp::min(10, total_files)
MinRequired == 10
\* clamp(0.005, 60.0), in ms.
ClampLowMs == 5
ClampHighMs == 60000
MsPerSec == 1000

Workers == 1..NumWorkers
\* The consumer of the channel model is the thread that called
\* process_tar_entries; it uses worker slot 1.
Consumer == 1

\* ------------------------------------------------------------ source trees
\* A tree is [n, kind, parent]: node 0 is the source root (a directory),
\* nodes 1..n lie below it, parent[i] < i is a directory.
TreesOfSize(N) ==
    UNION { { [n |-> N, kind |-> k, parent |-> p] :
                p \in { q \in [1..N -> 0..N] :
                          \A i \in 1..N : q[i] < i /\ (q[i] = 0 \/ k[q[i]] = "dir") } } :
            k \in [1..N -> {"file", "dir"}] }

\* The scenario of the specification: a.txt (1), b/ (2), b/b.txt (3), c/ (4).
ScenarioTree ==
    [n |-> 4,
     kind |-> (1 :> "file") @@ (2 :> "dir") @@ (3 :> "file") @@ (4 :> "dir"),
     parent |-> (1 :> 0) @@ (2 :> 0) @@ (3 :> 2) @@ (4 :> 0)]

Trees == (UNION { TreesOfSize(N) : N \in 0..MaxNodes }) \cup {ScenarioTree}

Nodes(t) == 0..t.n
is_dir(t, x) == x = 0 \/ t.kind[x] = "dir"
is_file(t, x) == x # 0 /\ t.kind[x] = "file"
Children(t, x) == { c \in 1..t.n : t.parent[c] = x }
Files(t) == { x \in Nodes(t) : is_file(t, x) }
\* Directories strictly below the root.
Dirs(t) == { x \in 1..t.n : is_dir(t, x) }
\* path.read_dir().next(): has the directory an entry?
read_dir_next_is_some(t, x) == Children(t, x) # {}

\* ------------------------------------------------------------ the walk
RECURSIVE SortedSeq(_)
SortedSeq(S) ==
    IF S = {} THEN <<>>
    ELSE LET m == CHOOSE x \in S : \A y \in S : x <= y
         IN  <<m>> \o SortedSeq(S \ {m})

\* WalkDir's order: a directory before its contents, depth first; the order
\* of a directory's children is the one read_dir gives (here: by node id).
RECURSIVE WalkStack(_, _)
WalkStack(t, stack) ==
    IF stack = <<>> THEN <<>>
    ELSE <<Head(stack)>>
         \o WalkStack(t, SortedSeq(Children(t, Head(stack))) \o Tail(stack))

\* WalkDir::new(src).min_depth(d): the root has depth 0.
WalkDir(t, min_depth) ==
    SelectSeq(WalkStack(t, <<0>>), LAMBDA x : min_depth = 0 \/ x # 0)

\* The closure given to .filter() in utilities::num_files: files, and
\* directories whose read_dir has an entry.
num_files_filter(t, x) ==
    is_file(t, x) \/ (is_dir(t, x) /\ read_dir_next_is_some(t, x))

\* utilities::num_files
num_files(t) == Len(SelectSeq(WalkDir(t, 0), LAMBDA x : num_files_filter(t, x)))

\* The closure given to .filter() in utilities::entries.
entries_filter(t, x) ==
    is_file(t, x) \/ (is_dir(t, x) /\ read_dir_next_is_some(t, x))

\* utilities::entries
entries(t) == SelectSeq(WalkDir(t, 0), LAMBDA x : entries_filter(t, x))

\* A count pass whose closure forgets the files.
count_filter_forgets_files(t, x) ==
    is_dir(t, x) /\ read_dir_next_is_some(t, x)

\* The closure of the count pass of encode_tar_bz.
count_filter(t, x) ==
    is_file(t, x) \/ (is_dir(t, x) /\ read_dir_next_is_some(t, x))

\* encode_tar_bz: total_files, the count pass (no min_depth).
count_pass(t) == Len(SelectSeq(WalkDir(t, 0), LAMBDA x : count_filter(t, x)))

\* The closure of the collect pass of encode_tar_bz.
collect_filter(t, x) ==
    is_file(t, x) \/ (is_dir(t, x) /\ read_dir_next_is_some(t, x))

\* encode_tar_bz: entries, the collect pass (min_depth(1)).
collect_pass(t) == SelectSeq(WalkDir(t, 1), LAMBDA x : collect_filter(t, x))

\* ------------------------------------------------------------ state
VARIABLES
    mode,          \* "fanout" (encode_tar_bz) or "channel" (process_tar_entries)
    tree,          \* the source tree
    flen,          \* current length of every file
    changes,       \* changes of a file's length made so far
    faults,        \* I/O errors injected so far
    errLog,        \* entries whose processing returned Err, as logged (eprintln)
    pcMain,        \* position of the orchestrating thread
    result,        \* what the orchestrator returned: "none", "ok"
    totalFiles,    \* CompressionProgress.total_files / the bar's length
    fileCounter,   \* CompressionProgress.file_counter
    incs,          \* increment_total_progress calls made on behalf of each node
    workingStatus, \* the shared status string: <<>> when empty
    entryVec,      \* fan-out: the collected Vec of entries
    remaining,     \* fan-out: indices of entryVec no worker has taken yet
    pc,            \* per worker: position inside the per-entry code
    cur,           \* per worker: the entry in hand (NoEntry when none)
    fsize,         \* per worker: file_size, from metadata
    buf,           \* per worker: length of the buffer read
    tarLock,       \* fan-out: holder of the Mutex around the tar::Builder, 0 if free
    archive,       \* records appended to the tar::Builder, in order
    finishCalls,   \* calls of tar::Builder::finish
    chan,          \* channel model: entries sent and not yet received
    walkerPc,      \* channel model: the walker thread
    walkerQueue,   \* channel model: entries the walker still has to send
    received,      \* channel model: entries the consumer has received, in order
    \* -- the Progress Tracker of progress.rs, lock by lock
    progressLock,  \* holder of CompressionProgress.progress_lock, 0 if free
    counterLock,   \* holder of the Mutex of file_counter, 0 if free
    lastLock,      \* holder of the Mutex of last_update_time, 0 if free
    smoothedLock,  \* holder of the Mutex of smoothed_eta_per_file, 0 if free
    clock,         \* the monotonic clock (Instant::now()), in ms
    lastUpdate,    \* last_update_time, in ms
    smoothed,      \* smoothed_eta_per_file: <<>> for None, <<num, exp>> for
                   \* Some(num / 5^exp ms)
    position,      \* total_progress.set_position
    cpc,           \* per caller of increment_total_progress: its position
    dur,           \* per caller: `duration`, in ms
    nowAt,         \* per caller: `now`, in ms
    pre,           \* per caller: counter and smoothed average when it entered
    accepted,      \* the elapsed times that entered the smoothed average
    rpc,           \* the thread of update_eta: its position
    etaMessage,    \* total_progress.set_message(eta_string)
    etaSeen,       \* what update_eta read when it built etaMessage
    called,        \* calls of increment_total_progress begun
    returned,      \* calls of increment_total_progress that have returned
    \* -- the thread of update_status
    statusMessage, \* status_bar.set_message
    prevMessage,   \* update_status: prev_message
    statusLock,    \* holder of the Mutex of working_status, 0 if free
    spc            \* the status thread: its position

vars == <<mode, tree, flen, changes, faults, errLog, pcMain, result, totalFiles,
          fileCounter, incs, workingStatus, entryVec, remaining, pc, cur, fsize,
          buf, tarLock, archive, finishCalls, chan, walkerPc, walkerQueue,
          received, progressLock, counterLock, lastLock, smoothedLock, clock,
          lastUpdate, smoothed, position, cpc, dur, nowAt, pre, accepted, rpc,
          etaMessage, etaSeen, called, returned, statusMessage, prevMessage,
          statusLock, spc>>

constVars == <<mode, tree>>
fsVars == <<flen, changes>>
progVars == <<totalFiles, fileCounter, incs>>
workerVars == <<pc, cur, fsize, buf>>
chanVars == <<chan, walkerPc, walkerQueue, received>>
fanVars == <<entryVec, remaining>>
lockVars == <<progressLock, counterLock, lastLock, smoothedLock>>
trackerVars == <<lockVars, clock, lastUpdate, smoothed, position, cpc, dur,
                 nowAt, pre, accepted, rpc, etaMessage, etaSeen, called,
                 returned>>
statusVars == <<statusMessage, prevMessage, statusLock, spc>>
\* What no step of the pipeline itself touches.
sideVars == <<trackerVars, statusVars>>

NoEntry == -1

\* Option<f64>::None
None == <<>>
Callers == 1..MaxCalls
\* The thread spawned by update_eta, as a holder of locks: no worker and no
\* caller.
EtaThread == NumWorkers + MaxCalls + 1
\* The thread spawned by update_status (in encode_tar_bz: _status_thread).
StatusThread == EtaThread + 1
\* The thread that runs encode_tar_bz, or that called process_tar_entries.
MainThread == EtaThread + 2

\* CompressionProgress::new, and no caller inside the tracker.
TrackerIdle ==
    /\ progressLock = 0 /\ counterLock = 0 /\ lastLock = 0 /\ smoothedLock = 0
    /\ clock = 0
    /\ lastUpdate = 0
    /\ position = 0
    /\ cpc = [c \in Callers |-> "out"]
    /\ dur = [c \in Callers |-> 0]
    /\ nowAt = [c \in Callers |-> 0]
    /\ pre = [c \in Callers |-> [counter |-> 0, smoothed |-> None]]
    /\ rpc = "unborn"
    /\ etaMessage = <<>>
    /\ etaSeen = <<>>
    /\ called = 0
    /\ returned = 0

\* update_status: prev_message = String::new(), nothing shown yet.
StatusIdle ==
    /\ statusMessage = <<>>
    /\ prevMessage = <<>>
    /\ statusLock = 0
    /\ spc = "unborn"

Init ==
    /\ mode \in {"fanout", "channel"}
    /\ tree \in Trees
    /\ flen = [x \in Files(tree) |-> x]
    /\ changes = 0
    /\ faults = 0
    /\ errLog = <<>>
    /\ pcMain = "count"
    /\ result = "none"
    /\ totalFiles = 0
    /\ fileCounter = 0
    /\ incs = [x \in Nodes(tree) |-> 0]
    /\ workingStatus = <<>>
    /\ entryVec = <<>>
    /\ remaining = {}
    /\ pc = [w \in Workers |-> "idle"]
    /\ cur = [w \in Workers |-> NoEntry]
    /\ fsize = [w \in Workers |-> 0]
    /\ buf = [w \in Workers |-> 0]
    /\ tarLock = 0
    /\ archive = <<>>
    /\ finishCalls = 0
    /\ chan = <<>>
    /\ walkerPc = "unborn"
    /\ walkerQueue = <<>>
    /\ received = <<>>
    /\ TrackerIdle
    /\ smoothed = None
    /\ accepted = {}
    /\ StatusIdle

\* ------------------------------------------------------------ shared pieces
\* No thread holds a mutex of the tracker.
TrackerFree ==
    progressLock = 0 /\ counterLock = 0 /\ lastLock = 0 /\ smoothedLock = 0

\* CompressionProgress::increment_total_progress, on behalf of entry x, as
\* one step: it waits for the tracker's mutexes, and has dropped them when
\* it returns.
increment_total_progress(x) ==
    /\ TrackerFree
    /\ fileCounter' = fileCounter + 1
    /\ incs' = [incs EXCEPT ![x] = @ + 1]
    /\ UNCHANGED totalFiles

\* The worker is done with its entry (Ok or Err) and drops its locals.
Release(w) ==
    /\ pc' = [pc EXCEPT ![w] = "idle"]
    /\ cur' = [cur EXCEPT ![w] = NoEntry]
    /\ fsize' = [fsize EXCEPT ![w] = 0]
    /\ buf' = [buf EXCEPT ![w] = 0]

\* `if let Err(e) = result { eprintln!(..) }` after an I/O error of the entry.
LogError(w) ==
    /\ faults < MaxFaults
    /\ faults' = faults + 1
    /\ errLog' = Append(errLog, cur[w])

Goto(w, label) ==
    /\ pc' = [pc EXCEPT ![w] = label]
    /\ UNCHANGED <<cur, fsize, buf>>

\* FileRecord with one buffer shared by all threads instead of the
\* buffer local to the call.
FileRecord_of_shared_buffer(w) ==
    [name |-> cur[w], kind |-> "file", size |-> fsize[w],
     data |-> buf[NumWorkers]]

\* tar::Builder::append(&header, &*buffer): the header carries file_size,
\* the data is the buffer.
FileRecord(w) ==
    [name |-> cur[w], kind |-> "file", size |-> fsize[w], data |-> buf[w]]

DirRecord(w) ==
    [name |-> cur[w], kind |-> "dir", size |-> 0, data |-> 0]

\* ------------------------------------------------------------ environment
\* Another process truncates the file or appends a byte to it while a worker
\* is between its stat and its read of the file. (A change at any other time
\* is seen by both the stat and the read, like a different initial length.)
ChangeLength(f) ==
    /\ changes < MaxChanges
    /\ \E w \in Workers :
          cur[w] = f /\ pc[w] \in {"open", "read", "t_open", "t_read"}
    /\ \E l \in {0, flen[f] + 1} \ {flen[f]} :
          flen' = [flen EXCEPT ![f] = l]
    /\ changes' = changes + 1
    /\ UNCHANGED <<constVars, sideVars, faults, errLog, pcMain, result, progVars,
                   workingStatus, fanVars, workerVars, tarLock, archive,
                   finishCalls, chanVars>>

\* ------------------------------------------------------------ fan-out
\* encode_tar_bz: the count pass, then CompressionProgress::new(total_files).
encode_tar_bz_count ==
    /\ mode = "fanout" /\ pcMain = "count"
    /\ totalFiles' = count_pass(tree)
    /\ pcMain' = "collect"
    /\ UNCHANGED <<constVars, sideVars, fsVars, faults, errLog, result, fileCounter, incs,
                   workingStatus, fanVars, workerVars, tarLock, archive,
                   finishCalls, chanVars>>

\* encode_tar_bz: the collect pass; into_par_iter() hands the Vec to the pool.
encode_tar_bz_collect ==
    /\ mode = "fanout" /\ pcMain = "collect"
    /\ entryVec' = collect_pass(tree)
    /\ remaining' = 1..Len(entryVec')
    /\ pcMain' = "par"
    /\ UNCHANGED <<constVars, sideVars, fsVars, faults, errLog, result, progVars,
                   workingStatus, workerVars, tarLock, archive, finishCalls,
                   chanVars>>

\* The for_each closure: a pool thread takes an entry nobody has taken;
\* strip_prefix(&src) succeeds (the entry was found below src); then
\* path.is_file() / path.is_dir() choose the branch.
for_each_take(w) ==
    /\ pcMain = "par" /\ pc[w] = "idle"
    /\ \E i \in remaining :
          /\ remaining' = remaining \ {i}
          /\ cur' = [cur EXCEPT ![w] = entryVec[i]]
          /\ pc' = [pc EXCEPT ![w] =
                      IF is_file(tree, entryVec[i]) THEN "stat" ELSE "lockdir"]
    /\ UNCHANGED <<constVars, sideVars, fsVars, faults, errLog, pcMain, result, progVars,
                   workingStatus, entryVec, fsize, buf, tarLock, archive,
                   finishCalls, chanVars>>

\* process_file: path.metadata()?, file_size, then the working status.
process_file_stat(w) ==
    /\ pc[w] = "stat"
    /\ \/ /\ fsize' = [fsize EXCEPT ![w] = flen[cur[w]]]
          /\ workingStatus' = <<"file", cur[w]>>
          /\ pc' = [pc EXCEPT ![w] = "open"]
          /\ UNCHANGED <<faults, errLog, cur, buf>>
       \/ /\ LogError(w) /\ Release(w)
          /\ UNCHANGED workingStatus
    /\ UNCHANGED <<constVars, sideVars, fsVars, pcMain, result, progVars, fanVars,
                   tarLock, archive, finishCalls, chanVars>>

\* process_file: File::open(path)?
process_file_open(w) ==
    /\ pc[w] = "open"
    /\ \/ /\ Goto(w, "read")
          /\ UNCHANGED <<faults, errLog>>
       \/ LogError(w) /\ Release(w)
    /\ UNCHANGED <<constVars, sideVars, fsVars, pcMain, result, progVars, workingStatus,
                   fanVars, tarLock, archive, finishCalls, chanVars>>

\* process_file: std::io::copy(&mut file, &mut buffer)?, then the header,
\* whose size is file_size.
process_file_read(w) ==
    /\ pc[w] = "read"
    /\ \/ /\ buf' = [buf EXCEPT ![w] = flen[cur[w]]]
          /\ pc' = [pc EXCEPT ![w] = "lock"]
          /\ UNCHANGED <<faults, errLog, cur, fsize>>
       \/ LogError(w) /\ Release(w)
    /\ UNCHANGED <<constVars, sideVars, fsVars, pcMain, result, progVars, workingStatus,
                   fanVars, tarLock, archive, finishCalls, chanVars>>

\* A process_file that does not wait for the writer's mutex.
process_file_lock_without_waiting(w) ==
    /\ pc[w] = "lock"
    /\ tarLock' = w
    /\ Goto(w, "append")
    /\ UNCHANGED <<constVars, sideVars, fsVars, faults, errLog, pcMain, result, progVars,
                   workingStatus, fanVars, archive, finishCalls, chanVars>>

\* process_file: tar_file.lock().unwrap()
process_file_lock(w) ==
    /\ pc[w] = "lock"
    /\ tarLock = 0
    /\ tarLock' = w
    /\ Goto(w, "append")
    /\ UNCHANGED <<constVars, sideVars, fsVars, faults, errLog, pcMain, result, progVars,
                   workingStatus, fanVars, archive, finishCalls, chanVars>>

\* A process_file whose guard of the writer is leaked when append fails.
process_file_append_leaks_guard(w) ==
    /\ pc[w] = "append"
    /\ \/ /\ archive' = Append(archive, FileRecord(w))
          /\ tarLock' = 0
          /\ Goto(w, "incr")
          /\ UNCHANGED <<faults, errLog>>
       \/ /\ LogError(w) /\ Release(w)
          /\ UNCHANGED <<archive, tarLock>>
    /\ UNCHANGED <<constVars, sideVars, fsVars, pcMain, result, progVars, workingStatus,
                   fanVars, finishCalls, chanVars>>

\* process_file: tar.append(&header, &*buffer)?; the guard drops at the end
\* of the block, on Ok and on Err.
process_file_append(w) ==
    /\ pc[w] = "append"
    /\ tarLock' = 0
    /\ \/ /\ archive' = Append(archive, FileRecord(w))
          /\ Goto(w, "incr")
          /\ UNCHANGED <<faults, errLog>>
       \/ /\ LogError(w) /\ Release(w)
          /\ UNCHANGED archive
    /\ UNCHANGED <<constVars, sideVars, fsVars, pcMain, result, progVars, workingStatus,
                   fanVars, finishCalls, chanVars>>

\* process_file: progress.increment_total_progress()
process_file_incr(w) ==
    /\ pc[w] = "incr"
    /\ increment_total_progress(cur[w])
    /\ Goto(w, "clear")
    /\ UNCHANGED <<constVars, sideVars, fsVars, faults, errLog, pcMain, result,
                   workingStatus, fanVars, tarLock, archive, finishCalls,
                   chanVars>>

\* process_file: the working status is set to the empty string; Ok(()).
process_file_clear(w) ==
    /\ pc[w] = "clear"
    /\ workingStatus' = <<>>
    /\ Release(w)
    /\ UNCHANGED <<constVars, sideVars, fsVars, faults, errLog, pcMain, result, progVars,
                   fanVars, tarLock, archive, finishCalls, chanVars>>

\* The for_each closure, directory branch: &mut *tar_file.lock().unwrap() is
\* an argument of process_directory, so the guard lives through the call.
for_each_lock_dir(w) ==
    /\ pc[w] = "lockdir"
    /\ tarLock = 0
    /\ tarLock' = w
    /\ Goto(w, "dirappend")
    /\ UNCHANGED <<constVars, sideVars, fsVars, faults, errLog, pcMain, result, progVars,
                   workingStatus, fanVars, archive, finishCalls, chanVars>>

\* process_directory: the working status, then tar_file.append_dir(..)?
process_directory_append(w) ==
    /\ pc[w] = "dirappend"
    /\ workingStatus' = <<"dir", cur[w]>>
    /\ \/ /\ archive' = Append(archive, DirRecord(w))
          /\ Goto(w, "dirread")
          /\ UNCHANGED <<faults, errLog, tarLock>>
       \/ /\ LogError(w) /\ Release(w)
          /\ tarLock' = 0
          /\ UNCHANGED archive
    /\ UNCHANGED <<constVars, sideVars, fsVars, pcMain, result, progVars, fanVars,
                   finishCalls, chanVars>>

\* process_directory: `if path.read_dir()?.next().is_none()` the progress is
\* incremented; the call returns and the guard of the writer drops.
process_directory_read(w) ==
    /\ pc[w] = "dirread"
    /\ tarLock' = 0
    /\ Release(w)
    /\ \/ /\ IF read_dir_next_is_some(tree, cur[w])
                THEN UNCHANGED progVars
                ELSE increment_total_progress(cur[w])
          /\ UNCHANGED <<faults, errLog>>
       \/ /\ LogError(w)
          /\ UNCHANGED progVars
    /\ UNCHANGED <<constVars, sideVars, fsVars, pcMain, result, workingStatus, fanVars,
                   archive, finishCalls, chanVars>>

\* encode_tar_bz_finish with a loop that returns once every entry is taken,
\* without waiting for the closures still running.
encode_tar_bz_finish_without_waiting ==
    /\ mode = "fanout" /\ pcMain = "par"
    /\ remaining = {}
    /\ tarLock = 0
    /\ finishCalls' = finishCalls + 1
    /\ pcMain' = "unwrap"
    /\ UNCHANGED <<constVars, sideVars, fsVars, faults, errLog, result, progVars,
                   workingStatus, fanVars, workerVars, tarLock, archive,
                   chanVars>>

\* encode_tar_bz: for_each has returned (every entry taken and processed);
\* tar_file.lock().unwrap().finish()?
encode_tar_bz_finish ==
    /\ mode = "fanout" /\ pcMain = "par"
    /\ remaining = {} /\ \A w \in Workers : pc[w] = "idle"
    /\ tarLock = 0
    /\ finishCalls' = finishCalls + 1
    /\ pcMain' = "unwrap"
    /\ UNCHANGED <<constVars, sideVars, fsVars, faults, errLog, result, progVars,
                   workingStatus, fanVars, workerVars, tarLock, archive,
                   chanVars>>

\* The threads whose closure call, which uses the shared handle of the
\* writer (&tar_file), is running.
writer_users == { w \in Workers : pc[w] # "idle" }

\* encode_tar_bz: Arc::try_unwrap(tar_file), into_inner(): the value bound to
\* `encoder` is the tar::Builder. With the handle still in use elsewhere
\* the function returns Err("Multiple tar writers still in use!").
encode_tar_bz_unwrap ==
    /\ mode = "fanout" /\ pcMain = "unwrap"
    /\ IF writer_users = {} /\ tarLock = 0
          THEN pcMain' = "encoder_finish" /\ UNCHANGED result
          ELSE pcMain' = "done" /\ result' = "err"
    /\ UNCHANGED <<constVars, sideVars, fsVars, faults, errLog, progVars,
                   workingStatus, fanVars, workerVars, tarLock, archive,
                   finishCalls, chanVars>>

\* encode_tar_bz: encoder.finish()? is tar::Builder::finish again; then
\* progress.finish(..) and Ok(()).
encode_tar_bz_encoder_finish ==
    /\ mode = "fanout" /\ pcMain = "encoder_finish"
    /\ finishCalls' = finishCalls + 1
    /\ pcMain' = "done"
    /\ result' = "ok"
    /\ UNCHANGED <<constVars, sideVars, fsVars, faults, errLog, progVars, workingStatus,
                   fanVars, workerVars, tarLock, archive, chanVars>>

\* ------------------------------------------------------------ channel model
\* The caller of process_tar_entries: total_files = num_files(src), then
\* setup_progress(total_files).
caller_num_files ==
    /\ mode = "channel" /\ pcMain = "count"
    /\ totalFiles' = num_files(tree)
    /\ pcMain' = "call"
    /\ UNCHANGED <<constVars, sideVars, fsVars, faults, errLog, result, fileCounter, incs,
                   workingStatus, fanVars, workerVars, tarLock, archive,
                   finishCalls, chanVars>>

\* process_tar_entries: mpsc::channel(), thread::spawn of the walker.
process_tar_entries_spawn ==
    /\ mode = "channel" /\ pcMain = "call"
    /\ walkerPc' = "walk"
    /\ pcMain' = "recv"
    /\ UNCHANGED <<constVars, sideVars, fsVars, faults, errLog, result, progVars,
                   workingStatus, fanVars, workerVars, tarLock, archive,
                   finishCalls, chan, walkerQueue, received>>

\* The walker: let entries = entries(&src_string).
walker_entries ==
    /\ walkerPc = "walk"
    /\ walkerQueue' = entries(tree)
    /\ walkerPc' = "send"
    /\ UNCHANGED <<constVars, sideVars, fsVars, faults, errLog, pcMain, result, progVars,
                   workingStatus, fanVars, workerVars, tarLock, archive,
                   finishCalls, chan, received>>

\* The walker: tx.send(entry); the receiver lives until the sender is
\* dropped, so send never fails.
walker_send ==
    /\ walkerPc = "send" /\ walkerQueue # <<>>
    /\ chan' = Append(chan, Head(walkerQueue))
    /\ walkerQueue' = Tail(walkerQueue)
    /\ UNCHANGED <<constVars, sideVars, fsVars, faults, errLog, pcMain, result, progVars,
                   workingStatus, fanVars, workerVars, tarLock, archive,
                   finishCalls, walkerPc, received>>

\* walker_exit with a clone of tx kept alive outside the walker.
walker_exit_with_sender_alive ==
    /\ walkerPc = "send" /\ walkerQueue = <<>>
    /\ walkerPc' = "done_sender_alive"
    /\ UNCHANGED <<constVars, sideVars, fsVars, faults, errLog, pcMain, result, progVars,
                   workingStatus, fanVars, workerVars, tarLock, archive,
                   finishCalls, chan, walkerQueue, received>>

\* The walker: the loop is over, the closure returns and tx is dropped.
walker_exit ==
    /\ walkerPc = "send" /\ walkerQueue = <<>>
    /\ walkerPc' = "done"
    /\ UNCHANGED <<constVars, sideVars, fsVars, faults, errLog, pcMain, result, progVars,
                   workingStatus, fanVars, workerVars, tarLock, archive,
                   finishCalls, chan, walkerQueue, received>>

\* `for entry in rx`: an entry is received; strip_prefix(src).unwrap() gives
\* the relative path (empty for the root); is_file / is_dir choose the branch.
rx_next ==
    /\ pcMain = "recv" /\ pc[Consumer] = "idle"
    /\ chan # <<>>
    /\ chan' = Tail(chan)
    /\ cur' = [cur EXCEPT ![Consumer] = Head(chan)]
    /\ pc' = [pc EXCEPT ![Consumer] =
                IF is_file(tree, Head(chan)) THEN "t_stat" ELSE "t_dirappend"]
    /\ UNCHANGED <<constVars, sideVars, fsVars, faults, errLog, pcMain, result, progVars,
                   workingStatus, fanVars, fsize, buf, tarLock, archive,
                   finishCalls, walkerPc, walkerQueue>>
    /\ received' = Append(received, Head(chan))

\* rx_closed with a receive that gives up on an empty channel while the
\* sender is still alive (try_recv instead of recv).
rx_closed_on_empty_channel ==
    /\ pcMain = "recv" /\ pc[Consumer] = "idle"
    /\ chan = <<>>
    /\ pcMain' = "join"
    /\ UNCHANGED <<constVars, sideVars, fsVars, faults, errLog, result, progVars,
                   workingStatus, fanVars, workerVars, tarLock, archive,
                   finishCalls, chanVars>>

\* `for entry in rx`: the channel is empty and the sender is gone.
rx_closed ==
    /\ pcMain = "recv" /\ pc[Consumer] = "idle"
    /\ chan = <<>> /\ walkerPc = "done"
    /\ pcMain' = "join"
    /\ UNCHANGED <<constVars, sideVars, fsVars, faults, errLog, result, progVars,
                   workingStatus, fanVars, workerVars, tarLock, archive,
                   finishCalls, chanVars>>

\* process_tar_file: path.metadata()?, file_size, the working status.
process_tar_file_stat ==
    /\ pc[Consumer] = "t_stat"
    /\ \/ /\ fsize' = [fsize EXCEPT ![Consumer] = flen[cur[Consumer]]]
          /\ workingStatus' = <<"file", cur[Consumer]>>
          /\ pc' = [pc EXCEPT ![Consumer] = "t_open"]
          /\ UNCHANGED <<faults, errLog, cur, buf>>
       \/ /\ LogError(Consumer) /\ Release(Consumer)
          /\ UNCHANGED workingStatus
    /\ UNCHANGED <<constVars, sideVars, fsVars, pcMain, result, progVars, fanVars,
                   tarLock, archive, finishCalls, chanVars>>

\* process_tar_file: File::open(path)?
process_tar_file_open ==
    /\ pc[Consumer] = "t_open"
    /\ \/ /\ Goto(Consumer, "t_read")
          /\ UNCHANGED <<faults, errLog>>
       \/ LogError(Consumer) /\ Release(Consumer)
    /\ UNCHANGED <<constVars, sideVars, fsVars, pcMain, result, progVars, workingStatus,
                   fanVars, tarLock, archive, finishCalls, chanVars>>

\* process_tar_file: std::io::copy(&mut file, &mut buffer)?, then the header,
\* whose size is file_size.
process_tar_file_read ==
    /\ pc[Consumer] = "t_read"
    /\ \/ /\ buf' = [buf EXCEPT ![Consumer] = flen[cur[Consumer]]]
          /\ pc' = [pc EXCEPT ![Consumer] = "t_append"]
          /\ UNCHANGED <<faults, errLog, cur, fsize>>
       \/ LogError(Consumer) /\ Release(Consumer)
    /\ UNCHANGED <<constVars, sideVars, fsVars, pcMain, result, progVars, workingStatus,
                   fanVars, tarLock, archive, finishCalls, chanVars>>

\* process_tar_file: tar_file.append(&header, &*buffer)?
process_tar_file_append ==
    /\ pc[Consumer] = "t_append"
    /\ \/ /\ archive' = Append(archive, FileRecord(Consumer))
          /\ Goto(Consumer, "t_incr")
          /\ UNCHANGED <<faults, errLog>>
       \/ /\ LogError(Consumer) /\ Release(Consumer)
          /\ UNCHANGED archive
    /\ UNCHANGED <<constVars, sideVars, fsVars, pcMain, result, progVars, workingStatus,
                   fanVars, tarLock, finishCalls, chanVars>>

\* process_tar_file: progress.increment_total_progress()
process_tar_file_incr ==
    /\ pc[Consumer] = "t_incr"
    /\ increment_total_progress(cur[Consumer])
    /\ Goto(Consumer, "t_clear")
    /\ UNCHANGED <<constVars, sideVars, fsVars, faults, errLog, pcMain, result,
                   workingStatus, fanVars, tarLock, archive, finishCalls,
                   chanVars>>

\* process_tar_file: the working status is set to the empty string; Ok(()).
process_tar_file_clear ==
    /\ pc[Consumer] = "t_clear"
    /\ workingStatus' = <<>>
    /\ Release(Consumer)
    /\ UNCHANGED <<constVars, sideVars, fsVars, faults, errLog, pcMain, result, progVars,
                   fanVars, tarLock, archive, finishCalls, chanVars>>

\* process_tar_directory: the working status, then
\* tar_file.append_dir(rel_path, path)?. The relative path of the root is
\* empty: whether the tar crate writes a record for it or returns an error
\* is the crate's choice, so both outcomes are kept (the error is then no
\* I/O fault of the environment).
process_tar_directory_append ==
    /\ pc[Consumer] = "t_dirappend"
    /\ workingStatus' = <<"dir", cur[Consumer]>>
    /\ \/ /\ archive' = Append(archive, DirRecord(Consumer))
          /\ Goto(Consumer, "t_dirread")
          /\ UNCHANGED <<faults, errLog>>
       \/ /\ LogError(Consumer) /\ Release(Consumer)
          /\ UNCHANGED archive
       \/ /\ cur[Consumer] = 0
          /\ errLog' = Append(errLog, 0)
          /\ Release(Consumer)
          /\ UNCHANGED <<faults, archive>>
    /\ UNCHANGED <<constVars, sideVars, fsVars, pcMain, result, progVars, fanVars,
                   tarLock, finishCalls, chanVars>>

\* process_tar_directory: `if path.read_dir()?.next().is_none()` the
\* progress is incremented; Ok(()).
process_tar_directory_read ==
    /\ pc[Consumer] = "t_dirread"
    /\ Release(Consumer)
    /\ \/ /\ IF read_dir_next_is_some(tree, cur[Consumer])
                THEN UNCHANGED progVars
                ELSE increment_total_progress(cur[Consumer])
          /\ UNCHANGED <<faults, errLog>>
       \/ /\ LogError(Consumer)
          /\ UNCHANGED progVars
    /\ UNCHANGED <<constVars, sideVars, fsVars, pcMain, result, workingStatus, fanVars,
                   tarLock, archive, finishCalls, chanVars>>

\* process_tar_entries: walker.join(), Ok(tar_file).
process_tar_entries_join ==
    /\ pcMain = "join" /\ walkerPc = "done"
    /\ pcMain' = "returned"
    /\ UNCHANGED <<constVars, sideVars, fsVars, faults, errLog, result, progVars,
                   workingStatus, fanVars, workerVars, tarLock, archive,
                   finishCalls, chanVars>>

\* The caller of process_tar_entries: finish() on the returned builder,
\* finalize_progress, Ok(()).
caller_finish ==
    /\ pcMain = "returned"
    /\ finishCalls' = finishCalls + 1
    /\ pcMain' = "done"
    /\ result' = "ok"
    /\ UNCHANGED <<constVars, sideVars, fsVars, faults, errLog, progVars, workingStatus,
                   fanVars, workerVars, tarLock, archive, chanVars>>

\* ------------------------------------------------------------ specification
Next ==
    \/ \E f \in Files(tree) : ChangeLength(f)
    \/ encode_tar_bz_count
    \/ encode_tar_bz_collect
    \/ \E w \in Workers : for_each_take(w)
    \/ \E w \in Workers : process_file_stat(w)
    \/ \E w \in Workers : process_file_open(w)
    \/ \E w \in Workers : process_file_read(w)
    \/ \E w \in Workers : process_file_lock(w)
    \/ \E w \in Workers : process_file_append(w)
    \/ \E w \in Workers : process_file_incr(w)
    \/ \E w \in Workers : process_file_clear(w)
    \/ \E w \in Workers : for_each_lock_dir(w)
    \/ \E w \in Workers : process_directory_append(w)
    \/ \E w \in Workers : process_directory_read(w)
    \/ encode_tar_bz_finish
    \/ encode_tar_bz_unwrap
    \/ encode_tar_bz_encoder_finish
    \/ caller_num_files
    \/ process_tar_entries_spawn
    \/ walker_entries
    \/ walker_send
    \/ walker_exit
    \/ rx_next
    \/ rx_closed
    \/ process_tar_file_stat
    \/ process_tar_file_open
    \/ process_tar_file_read
    \/ process_tar_file_append
    \/ process_tar_file_incr
    \/ process_tar_file_clear
    \/ process_tar_directory_append
    \/ process_tar_directory_read
    \/ process_tar_entries_join
    \/ caller_finish

Spec == Init /\ [][Next]_vars

\* ------------------------------------------------------------ progress tracker
\* CompressionProgress of progress.rs, one step per lock or statement.
\* Durations are in ms; the smoothed average <<num, exp>> is the exact
\* rational num / SmoothingDen^exp ms.
RECURSIVE Pow(_, _)
Pow(b, k) == IF k = 0 THEN 1 ELSE b * Pow(b, k - 1)

\* What Instant::now() may have advanced by since last_update_time was
\* written: both sides of the two limits, and ordinary per-entry times.
ElapsedChoices ==
    {TooFastMs - 1, TooFastMs, 1200, TooSlowMs, TooSlowMs + 1}

\* too_fast_or_too_slow without the upper limit.
too_fast_or_too_slow_without_upper_limit(d) == d < TooFastMs

\* `duration < Duration::from_millis(10) || duration > Duration::from_secs(30)`
too_fast_or_too_slow(d) == d < TooFastMs \/ d > TooSlowMs

\* smoothed_update with the two weights exchanged.
smoothed_update_with_weights_exchanged(prev, latest) ==
    IF prev = None
        THEN <<latest, 0>>
        ELSE <<(SmoothingDen - 1) * latest * Pow(SmoothingDen, prev[2]) + prev[1],
               prev[2] + 1>>

\* Some(match *smoothed { Some(prev_time) => 0.2 * latest + 0.8 * prev_time,
\*                        None => latest_secs })
smoothed_update(prev, latest) ==
    IF prev = None
        THEN <<latest, 0>>
        ELSE <<latest * Pow(SmoothingDen, prev[2]) + (SmoothingDen - 1) * prev[1],
               prev[2] + 1>>

\* min_required that forgets the cap of 10.
min_required_without_cap(total) == total

\* std::cmp::min(10, progress.total_files)
min_required(total) == IF MinRequired < total THEN MinRequired ELSE total

\* smoothed_eta.unwrap_or(0.0).clamp(0.005, 60.0), as <<num, exp>>.
avg_time(sm) ==
    IF sm[1] < ClampLowMs * Pow(SmoothingDen, sm[2]) THEN <<ClampLowMs, 0>>
    ELSE IF sm[1] > ClampHighMs * Pow(SmoothingDen, sm[2]) THEN <<ClampHighMs, 0>>
    ELSE sm

\* total_files.saturating_sub(*counter)
saturating_sub(a, b) == IF a > b THEN a - b ELSE 0

\* Duration::from_secs(eta_secs as u64): avg_time * remaining in whole
\* seconds, the fraction cut off.
eta_duration(sm, counter, total) ==
    (avg_time(sm)[1] * saturating_sub(total, counter))
        \div (MsPerSec * Pow(SmoothingDen, avg_time(sm)[2]))

format_eta(secs) ==
    LET hours == secs \div 3600
        minutes == (secs % 3600) \div 60
        seconds == secs % 60
    IN  IF hours > 0 THEN <<"hours", hours, minutes, seconds>>
        ELSE IF minutes > 0 THEN <<"minutes", minutes, seconds>>
        ELSE <<"seconds", seconds>>

\* update_eta: the string handed to set_message.
eta_string(counter, sm, total) ==
    IF counter < min_required(total) \/ sm = None
        THEN <<"calculating">>
        ELSE format_eta(eta_duration(sm, counter, total))

\* What the tracker never touches.
pipelineVars == <<constVars, fsVars, faults, errLog, pcMain, result, totalFiles,
                  incs, workingStatus, fanVars, workerVars, tarLock, archive,
                  finishCalls, chanVars, statusVars>>

\* A worker calls increment_total_progress; there is one call per counted
\* entry, so never more calls than total_files.
itp_call(c) ==
    /\ cpc[c] = "out"
    /\ called - returned + fileCounter
           - Cardinality({ d \in Callers : cpc[d] \in {"now", "branch", "smooth", "ret"} })
         < totalFiles
    /\ cpc' = [cpc EXCEPT ![c] = "entry"]
    /\ called' = called + 1
    /\ UNCHANGED <<pipelineVars, lockVars, clock, lastUpdate, smoothed, position, dur, nowAt,
                   pre, accepted, rpc, etaMessage, etaSeen, returned,
                   fileCounter>>

\* let _lock = self.progress_lock.lock().unwrap();
itp_lock_progress(c) ==
    /\ cpc[c] = "entry" /\ progressLock = 0
    /\ progressLock' = c
    /\ pre' = [pre EXCEPT ![c] = [counter |-> fileCounter, smoothed |-> smoothed]]
    /\ cpc' = [cpc EXCEPT ![c] = "counter"]
    /\ UNCHANGED <<pipelineVars, counterLock, lastLock, smoothedLock, clock, lastUpdate,
                   smoothed, position, dur, nowAt, accepted, rpc, etaMessage,
                   etaSeen, called, returned, fileCounter>>

\* itp_lock_counter writing the counter without holding its mutex.
itp_lock_counter_without_mutex(c) ==
    /\ cpc[c] = "counter"
    /\ fileCounter' = fileCounter + 1
    /\ cpc' = [cpc EXCEPT ![c] = "now"]
    /\ UNCHANGED <<pipelineVars, lockVars, clock, lastUpdate, smoothed, position, dur, nowAt,
                   pre, accepted, rpc, etaMessage, etaSeen, called, returned>>

\* let mut counter = self.file_counter.lock().unwrap(); *counter += 1;
itp_lock_counter(c) ==
    /\ cpc[c] = "counter" /\ counterLock = 0
    /\ counterLock' = c
    /\ fileCounter' = fileCounter + 1
    /\ cpc' = [cpc EXCEPT ![c] = "now"]
    /\ UNCHANGED <<pipelineVars, progressLock, lastLock, smoothedLock, clock, lastUpdate,
                   smoothed, position, dur, nowAt, pre, accepted, rpc,
                   etaMessage, etaSeen, called, returned>>

\* let now = Instant::now(); last_time = last_update_time.lock();
\* duration = now.duration_since(*last_time); *last_time = now;
itp_now(c) ==
    /\ cpc[c] = "now" /\ lastLock = 0
    /\ lastLock' = c
    /\ \E d \in ElapsedChoices : clock' = clock + d
    /\ nowAt' = [nowAt EXCEPT ![c] = clock']
    /\ dur' = [dur EXCEPT ![c] = clock' - lastUpdate]
    /\ lastUpdate' = clock'
    /\ cpc' = [cpc EXCEPT ![c] = "branch"]
    /\ UNCHANGED <<pipelineVars, progressLock, counterLock, smoothedLock, smoothed, position,
                   pre, accepted, rpc, etaMessage, etaSeen, called, returned,
                   fileCounter>>

\* `if duration < 10 ms || duration > 30 s { set_position; return; }`
itp_branch(c) ==
    /\ cpc[c] = "branch"
    /\ IF too_fast_or_too_slow(dur[c])
          THEN /\ position' = fileCounter
               /\ cpc' = [cpc EXCEPT ![c] = "ret"]
          ELSE /\ cpc' = [cpc EXCEPT ![c] = "smooth"]
               /\ UNCHANGED position
    /\ UNCHANGED <<pipelineVars, lockVars, clock, lastUpdate, smoothed, dur, nowAt, pre,
                   accepted, rpc, etaMessage, etaSeen, called, returned,
                   fileCounter>>

\* let mut smoothed = smoothed_eta_per_file.lock(); *smoothed = Some(..);
\* set_position(*counter).
itp_smooth(c) ==
    /\ cpc[c] = "smooth" /\ smoothedLock = 0
    /\ smoothedLock' = c
    /\ smoothed' = smoothed_update(smoothed, dur[c])
    /\ accepted' = accepted \cup {dur[c]}
    /\ position' = fileCounter
    /\ cpc' = [cpc EXCEPT ![c] = "ret"]
    /\ UNCHANGED <<pipelineVars, progressLock, counterLock, lastLock, clock, lastUpdate, dur,
                   nowAt, pre, rpc, etaMessage, etaSeen, called, returned,
                   fileCounter>>

\* The function returns: every guard it holds and its locals are dropped.
itp_return(c) ==
    /\ cpc[c] = "ret"
    /\ progressLock' = IF progressLock = c THEN 0 ELSE progressLock
    /\ counterLock' = IF counterLock = c THEN 0 ELSE counterLock
    /\ lastLock' = IF lastLock = c THEN 0 ELSE lastLock
    /\ smoothedLock' = IF smoothedLock = c THEN 0 ELSE smoothedLock
    /\ cpc' = [cpc EXCEPT ![c] = "out"]
    /\ returned' = returned + 1
    /\ dur' = [dur EXCEPT ![c] = 0]
    /\ nowAt' = [nowAt EXCEPT ![c] = 0]
    /\ pre' = [pre EXCEPT ![c] = [counter |-> 0, smoothed |-> None]]
    /\ UNCHANGED <<pipelineVars, clock, lastUpdate, smoothed, position,
                   accepted, rpc, etaMessage, etaSeen, called, fileCounter>>

\* update_eta: let counter = progress.file_counter.lock().unwrap();
update_eta_lock_counter ==
    /\ rpc = "loop" /\ counterLock = 0
    /\ counterLock' = EtaThread
    /\ rpc' = "smoothed"
    /\ UNCHANGED <<pipelineVars, progressLock, lastLock, smoothedLock, clock, lastUpdate,
                   smoothed, position, cpc, dur, nowAt, pre, accepted,
                   etaMessage, etaSeen, called, returned, fileCounter>>

\* update_eta: let smoothed_eta = progress.smoothed_eta_per_file.lock().unwrap();
update_eta_lock_smoothed ==
    /\ rpc = "smoothed" /\ smoothedLock = 0
    /\ smoothedLock' = EtaThread
    /\ rpc' = "render"
    /\ UNCHANGED <<pipelineVars, progressLock, counterLock, lastLock, clock, lastUpdate,
                   smoothed, position, cpc, dur, nowAt, pre, accepted,
                   etaMessage, etaSeen, called, returned, fileCounter>>

\* update_eta: eta_string, set_message(eta_string); the block ends and both
\* guards are dropped; thread::sleep.
update_eta_render ==
    /\ rpc = "render"
    /\ etaMessage' = eta_string(fileCounter, smoothed, totalFiles)
    /\ etaSeen' = [counter |-> fileCounter, smoothed |-> smoothed]
    /\ counterLock' = 0
    /\ smoothedLock' = 0
    /\ rpc' = "loop"
    /\ UNCHANGED <<pipelineVars, progressLock, lastLock, clock, lastUpdate, smoothed,
                   position, cpc, dur, nowAt, pre, accepted, called, returned,
                   fileCounter>>

\* The tracker part-way through a run: total_files entries to count, none
\* or BaseCount of them counted, no sample accepted yet or one of 20 ms.
InitProgress ==
    /\ mode = "channel"
    /\ tree = [n |-> 0, kind |-> <<>>, parent |-> <<>>]
    /\ flen = <<>>
    /\ changes = 0 /\ faults = 0 /\ errLog = <<>>
    /\ pcMain = "recv" /\ result = "none"
    /\ fileCounter \in {0, BaseCount}
    /\ totalFiles = fileCounter + MaxSamples
    /\ incs = [x \in Nodes(tree) |-> 0]
    /\ workingStatus = <<>>
    /\ entryVec = <<>> /\ remaining = {}
    /\ pc = [w \in Workers |-> "idle"]
    /\ cur = [w \in Workers |-> NoEntry]
    /\ fsize = [w \in Workers |-> 0]
    /\ buf = [w \in Workers |-> 0]
    /\ tarLock = 0 /\ archive = <<>> /\ finishCalls = 0
    /\ chan = <<>> /\ walkerPc = "send" /\ walkerQueue = <<>>
    /\ received = <<>>
    /\ progressLock = 0 /\ counterLock = 0 /\ lastLock = 0 /\ smoothedLock = 0
    /\ clock = 0 /\ lastUpdate = 0
    /\ position = fileCounter
    /\ cpc = [c \in Callers |-> "out"]
    /\ dur = [c \in Callers |-> 0]
    /\ nowAt = [c \in Callers |-> 0]
    /\ pre = [c \in Callers |-> [counter |-> 0, smoothed |-> None]]
    /\ rpc = "loop"
    /\ etaMessage = <<>> /\ etaSeen = <<>>
    /\ called = 0 /\ returned = 0
    /\ \/ smoothed = None /\ accepted = {}
       \/ fileCounter > 0 /\ smoothed = <<20, 0>> /\ accepted = {20}
    /\ StatusIdle

NextProgress ==
    \/ \E c \in Callers : itp_call(c)
    \/ \E c \in Callers : itp_lock_progress(c)
    \/ \E c \in Callers : itp_lock_counter(c)
    \/ \E c \in Callers : itp_now(c)
    \/ \E c \in Callers : itp_branch(c)
    \/ \E c \in Callers : itp_smooth(c)
    \/ \E c \in Callers : itp_return(c)
    \/ update_eta_lock_counter
    \/ update_eta_lock_smoothed
    \/ update_eta_render

SpecProgress == InitProgress /\ [][NextProgress]_vars

\* ------------------------------------------------------------ channel run, fair
\* update_status: one round of the loop. The status is cloned under its
\* mutex, the message is shown and remembered. (is_new_file only decides
\* whether the terminal is cleared.)
update_status_round ==
    /\ statusMessage' = IF workingStatus = <<>>
                            THEN <<"Switching directories...">>
                            ELSE <<"Compressing", workingStatus>>
    /\ prevMessage' = statusMessage'
    /\ UNCHANGED <<constVars, trackerVars, fsVars, faults, errLog, pcMain,
                   result, progVars, workingStatus, fanVars, workerVars,
                   tarLock, archive, finishCalls, chanVars, statusLock, spc>>

\* process_tar_entries is called: the count is taken, setup_progress has
\* built the tracker and spawned update_eta and update_status.
InitLive ==
    /\ mode = "channel"
    /\ tree \in Trees
    /\ flen = [x \in Files(tree) |-> x]
    /\ changes = 0 /\ faults = 0 /\ errLog = <<>>
    /\ pcMain = "call" /\ result = "none"
    /\ totalFiles = num_files(tree)
    /\ fileCounter = 0
    /\ incs = [x \in Nodes(tree) |-> 0]
    /\ workingStatus = <<>>
    /\ entryVec = <<>> /\ remaining = {}
    /\ pc = [w \in Workers |-> "idle"]
    /\ cur = [w \in Workers |-> NoEntry]
    /\ fsize = [w \in Workers |-> 0]
    /\ buf = [w \in Workers |-> 0]
    /\ tarLock = 0 /\ archive = <<>> /\ finishCalls = 0
    /\ chan = <<>> /\ walkerPc = "unborn" /\ walkerQueue = <<>>
    /\ received = <<>>
    /\ TrackerFree
    /\ clock = 0 /\ lastUpdate = 0 /\ position = 0
    /\ cpc = [c \in Callers |-> "out"]
    /\ dur = [c \in Callers |-> 0]
    /\ nowAt = [c \in Callers |-> 0]
    /\ pre = [c \in Callers |-> [counter |-> 0, smoothed |-> None]]
    /\ rpc = "loop"
    /\ etaMessage = <<>> /\ etaSeen = <<>>
    /\ called = 0 /\ returned = 0
    /\ smoothed = None /\ accepted = {}
    /\ StatusIdle

\* The steps of the channel run and of the two renderer threads. (The
\* length of a file decides no step: its changes are left to Spec.)
NextLive ==
    \/ process_tar_entries_spawn
    \/ walker_entries
    \/ walker_send
    \/ walker_exit
    \/ rx_next
    \/ rx_closed
    \/ process_tar_file_stat
    \/ process_tar_file_open
    \/ process_tar_file_read
    \/ process_tar_file_append
    \/ process_tar_file_incr
    \/ process_tar_file_clear
    \/ process_tar_directory_append
    \/ process_tar_directory_read
    \/ process_tar_entries_join
    \/ caller_finish
    \/ update_eta_lock_counter
    \/ update_eta_lock_smoothed
    \/ update_eta_render
    \/ update_status_round

\* Fair scheduling, thread by thread: a thread that can take its next step
\* takes it. The walker, the consumer and the caller are threads in that
\* sense; so is
\* update_eta between its first lock and the end of its block. A call of
\* increment_total_progress waits for a mutex update_eta takes and drops
\* once per second: it gets it (strong fairness). Nothing is asked of the
\* start of a round of update_eta or update_status, of the environment, or
\* of the caller after the return.
FairLive ==
    /\ WF_vars(walker_entries \/ walker_send \/ walker_exit)
    /\ WF_vars(rx_next \/ rx_closed
                  \/ process_tar_file_stat \/ process_tar_file_open
                  \/ process_tar_file_read \/ process_tar_file_append
                  \/ process_tar_file_clear \/ process_tar_directory_append)
    /\ SF_vars(process_tar_file_incr \/ process_tar_directory_read)
    /\ WF_vars(process_tar_entries_spawn \/ process_tar_entries_join)
    /\ WF_vars(update_eta_lock_smoothed \/ update_eta_render)

SpecLive == InitLive /\ [][NextLive]_vars /\ FairLive

\* ------------------------------------------------------------ lock by lock
\* Both orchestrations with every Mutex as a step of its own: the writer
\* (fan-out only), working_status, and the tracker's (in encode_tar_bz the
\* tracker of encode.rs: progress_lock and file_counter; in the channel run
\* the tracker of progress.rs with update_eta). The content of the archive
\* and the clock are left out; whether an elapsed time is plausible is
\* either way. Another process may empty a directory after the walk.
locksFrame == <<flen, errLog, result, totalFiles, incs, entryVec, fsize, buf,
                archive, finishCalls, walkerPc, walkerQueue, received, clock,
                lastUpdate, smoothed, position, cpc, dur, nowAt, pre, accepted,
                etaMessage, etaSeen, called, returned, prevMessage>>
threadVars == <<pcMain, rpc, spc>>

\* The closure call (or the loop body of the consumer) ends: the entry is
\* dropped, and with it the temporary guard of the writer if there is one.
entry_done(w) ==
    /\ pc' = [pc EXCEPT ![w] = "idle"]
    /\ cur' = [cur EXCEPT ![w] = NoEntry]
    /\ tarLock' = IF tarLock = w THEN 0 ELSE tarLock

entry_goto(w, label) ==
    /\ pc' = [pc EXCEPT ![w] = label]
    /\ UNCHANGED <<cur, tarLock>>

\* An I/O error of the environment: the `?` returns.
io_error(w) ==
    /\ faults < MaxFaults
    /\ faults' = faults + 1
    /\ entry_done(w)

\* A pool thread takes an entry of the Vec; the consumer receives one.
entry_take(w) ==
    /\ pc[w] = "idle"
    /\ IF mode = "fanout"
          THEN /\ pcMain = "par"
               /\ \E i \in remaining :
                     /\ remaining' = remaining \ {i}
                     /\ cur' = [cur EXCEPT ![w] = entryVec[i]]
               /\ UNCHANGED chan
          ELSE /\ pcMain = "recv" /\ w = Consumer /\ chan # <<>>
               /\ cur' = [cur EXCEPT ![w] = Head(chan)]
               /\ chan' = Tail(chan)
               /\ UNCHANGED remaining
    /\ pc' = [pc EXCEPT ![w] =
                IF is_file(tree, cur'[w]) THEN "f_stat"
                ELSE IF mode = "fanout" THEN "d_writer_lock"
                ELSE "d_status_lock"]
    /\ UNCHANGED <<constVars, locksFrame, statusMessage, threadVars, changes, faults,
                   fileCounter, workingStatus, tarLock, statusLock, lockVars>>

\* process_file / process_tar_file: path.metadata()?
file_stat(w) ==
    /\ pc[w] = "f_stat"
    /\ \/ entry_goto(w, "f_status_lock") /\ UNCHANGED faults
       \/ io_error(w)
    /\ UNCHANGED <<constVars, locksFrame, statusMessage, threadVars, changes, remaining, chan,
                   fileCounter, workingStatus, statusLock, lockVars>>

\* `if let Ok(mut status) = working_status.lock()`
file_status_lock(w) ==
    /\ pc[w] = "f_status_lock" /\ statusLock = 0
    /\ statusLock' = w
    /\ entry_goto(w, "f_status_set")
    /\ UNCHANGED <<constVars, locksFrame, statusMessage, threadVars, changes, faults,
                   remaining, chan, fileCounter, workingStatus, lockVars>>

\* file_status_set with the guard of working_status kept until the end of
\* the function instead of the end of the if-let block.
file_status_set_keeps_guard(w) ==
    /\ pc[w] = "f_status_set"
    /\ workingStatus' = <<"file", cur[w]>>
    /\ entry_goto(w, "f_read")
    /\ UNCHANGED <<constVars, locksFrame, statusMessage, threadVars, changes, faults,
                   remaining, chan, fileCounter, statusLock, lockVars>>

\* `*status = format!(..)`; the block ends and the guard is dropped.
file_status_set(w) ==
    /\ pc[w] = "f_status_set"
    /\ workingStatus' = <<"file", cur[w]>>
    /\ statusLock' = 0
    /\ entry_goto(w, "f_read")
    /\ UNCHANGED <<constVars, locksFrame, statusMessage, threadVars, changes, faults,
                   remaining, chan, fileCounter, lockVars>>

\* File::open(path)?, io::copy / read_to_end ?, the header.
file_read(w) ==
    /\ pc[w] = "f_read"
    /\ \/ /\ entry_goto(w, IF mode = "fanout" THEN "f_writer_lock"
                                                ELSE "f_append")
          /\ UNCHANGED faults
       \/ io_error(w)
    /\ UNCHANGED <<constVars, locksFrame, statusMessage, threadVars, changes, remaining, chan,
                   fileCounter, workingStatus, statusLock, lockVars>>

\* process_file: let mut tar = tar_file.lock().unwrap();
file_writer_lock(w) ==
    /\ pc[w] = "f_writer_lock" /\ tarLock = 0
    /\ tarLock' = w
    /\ pc' = [pc EXCEPT ![w] = "f_append"]
    /\ UNCHANGED <<constVars, locksFrame, statusMessage, threadVars, changes, faults,
                   remaining, chan, fileCounter, workingStatus, cur, statusLock,
                   lockVars>>

\* append(&header, &*buffer)?; in process_file the block ends and the
\* writer's guard is dropped, also on the error return.
file_append(w) ==
    /\ pc[w] = "f_append"
    /\ \/ /\ pc' = [pc EXCEPT ![w] = "inc_progress"]
          /\ tarLock' = IF tarLock = w THEN 0 ELSE tarLock
          /\ UNCHANGED <<cur, faults>>
       \/ io_error(w)
    /\ UNCHANGED <<constVars, locksFrame, statusMessage, threadVars, changes, remaining, chan,
                   fileCounter, workingStatus, statusLock, lockVars>>

\* The second `if let Ok(mut status) = working_status.lock()`.
file_clear_lock(w) ==
    /\ pc[w] = "f_clear_lock" /\ statusLock = 0
    /\ statusLock' = w
    /\ entry_goto(w, "f_clear_set")
    /\ UNCHANGED <<constVars, locksFrame, statusMessage, threadVars, changes, faults,
                   remaining, chan, fileCounter, workingStatus, lockVars>>

\* `*status = String::new()`, the guard is dropped; Ok(()).
file_clear_set(w) ==
    /\ pc[w] = "f_clear_set"
    /\ workingStatus' = <<>>
    /\ statusLock' = IF statusLock = w THEN 0 ELSE statusLock
    /\ entry_done(w)
    /\ UNCHANGED <<constVars, locksFrame, statusMessage, threadVars, changes, faults,
                   remaining, chan, fileCounter, lockVars>>

\* encode_tar_bz: `&mut *tar_file.lock().unwrap()` as an argument of
\* process_directory: the guard lives until the call has returned.
directory_writer_lock(w) ==
    /\ pc[w] = "d_writer_lock" /\ tarLock = 0
    /\ tarLock' = w
    /\ pc' = [pc EXCEPT ![w] = "d_status_lock"]
    /\ UNCHANGED <<constVars, locksFrame, statusMessage, threadVars, changes, faults,
                   remaining, chan, fileCounter, workingStatus, cur, statusLock,
                   lockVars>>

\* process_directory / process_tar_directory: working_status.lock()
directory_status_lock(w) ==
    /\ pc[w] = "d_status_lock" /\ statusLock = 0
    /\ statusLock' = w
    /\ entry_goto(w, "d_status_set")
    /\ UNCHANGED <<constVars, locksFrame, statusMessage, threadVars, changes, faults,
                   remaining, chan, fileCounter, workingStatus, lockVars>>

\* `*status = format!(..)`; the guard is dropped.
directory_status_set(w) ==
    /\ pc[w] = "d_status_set"
    /\ workingStatus' = <<"dir", cur[w]>>
    /\ statusLock' = 0
    /\ entry_goto(w, "d_append")
    /\ UNCHANGED <<constVars, locksFrame, statusMessage, threadVars, changes, faults,
                   remaining, chan, fileCounter, lockVars>>

\* tar_file.append_dir(rel_path, path)?
directory_append_dir(w) ==
    /\ pc[w] = "d_append"
    /\ \/ entry_goto(w, "d_read") /\ UNCHANGED faults
       \/ io_error(w)
    /\ UNCHANGED <<constVars, locksFrame, statusMessage, threadVars, changes, remaining, chan,
                   fileCounter, workingStatus, statusLock, lockVars>>

\* `if path.read_dir()?.next().is_none() { increment_total_progress() }`:
\* the directory had an entry when the walk selected it; it is empty now if
\* another process emptied it.
directory_read_dir(w) ==
    /\ pc[w] = "d_read"
    /\ \/ /\ read_dir_next_is_some(tree, cur[w])
          /\ entry_done(w)
          /\ UNCHANGED <<faults, changes>>
       \/ /\ \/ ~read_dir_next_is_some(tree, cur[w]) /\ UNCHANGED changes
             \/ changes < MaxChanges /\ changes' = changes + 1
          /\ entry_goto(w, "inc_progress")
          /\ UNCHANGED faults
       \/ io_error(w) /\ UNCHANGED changes
    /\ UNCHANGED <<constVars, locksFrame, statusMessage, threadVars, remaining, chan,
                   fileCounter, workingStatus, statusLock, lockVars>>

\* increment_total_progress: let _lock = self.progress_lock.lock().unwrap();
increment_lock_progress(w) ==
    /\ pc[w] = "inc_progress" /\ progressLock = 0
    /\ progressLock' = w
    /\ entry_goto(w, "inc_counter")
    /\ UNCHANGED <<constVars, locksFrame, statusMessage, threadVars, changes, faults,
                   remaining, chan, fileCounter, workingStatus, statusLock,
                   counterLock, lastLock, smoothedLock>>

\* let mut counter = self.file_counter.lock().unwrap(); *counter += 1;
\* the tracker of encode.rs then only redraws.
increment_lock_counter(w) ==
    /\ pc[w] = "inc_counter" /\ counterLock = 0
    /\ counterLock' = w
    /\ fileCounter' = fileCounter + 1
    /\ entry_goto(w, IF mode = "fanout" THEN "inc_return" ELSE "inc_last")
    /\ UNCHANGED <<constVars, locksFrame, statusMessage, threadVars, changes, faults,
                   remaining, chan, workingStatus, statusLock, progressLock,
                   lastLock, smoothedLock>>

\* progress.rs: let mut last_time = self.last_update_time.lock().unwrap();
\* then the test of the duration.
increment_lock_last(w) ==
    /\ pc[w] = "inc_last" /\ lastLock = 0
    /\ lastLock' = w
    /\ \E plausible \in BOOLEAN :
          entry_goto(w, IF plausible THEN "inc_smoothed" ELSE "inc_return")
    /\ UNCHANGED <<constVars, locksFrame, statusMessage, threadVars, changes, faults,
                   remaining, chan, fileCounter, workingStatus, statusLock,
                   progressLock, counterLock, smoothedLock>>

\* progress.rs: let mut smoothed = self.smoothed_eta_per_file.lock().unwrap();
increment_lock_smoothed(w) ==
    /\ pc[w] = "inc_smoothed" /\ smoothedLock = 0
    /\ smoothedLock' = w
    /\ entry_goto(w, "inc_return")
    /\ UNCHANGED <<constVars, locksFrame, statusMessage, threadVars, changes, faults,
                   remaining, chan, fileCounter, workingStatus, statusLock,
                   progressLock, counterLock, lastLock>>

\* increment_total_progress returns: its guards are dropped. A file goes
\* on to clear the status; for a directory the call of process_directory
\* returns.
increment_return(w) ==
    /\ pc[w] = "inc_return"
    /\ progressLock' = IF progressLock = w THEN 0 ELSE progressLock
    /\ counterLock' = IF counterLock = w THEN 0 ELSE counterLock
    /\ lastLock' = IF lastLock = w THEN 0 ELSE lastLock
    /\ smoothedLock' = IF smoothedLock = w THEN 0 ELSE smoothedLock
    /\ IF is_file(tree, cur[w]) THEN entry_goto(w, "f_clear_lock")
                                ELSE entry_done(w)
    /\ UNCHANGED <<constVars, locksFrame, statusMessage, threadVars, changes, faults,
                   remaining, chan, fileCounter, workingStatus, statusLock>>

\* The status thread: working_status.lock()
status_thread_lock ==
    /\ spc = "loop" /\ statusLock = 0
    /\ statusLock' = StatusThread
    /\ spc' = "clone"
    /\ UNCHANGED <<constVars, locksFrame, statusMessage, pcMain, rpc, changes, faults,
                   remaining, chan, fileCounter, workingStatus, pc, cur,
                   tarLock, lockVars>>

\* The status thread: .clone(), the guard is dropped at the end of the
\* block; set_message and thread::sleep, which take no lock (what the
\* spinner shows is update_status_round's subject).
status_thread_clone ==
    /\ spc = "clone"
    /\ statusLock' = 0
    /\ spc' = "loop"
    /\ UNCHANGED <<statusMessage>>
    /\ UNCHANGED <<constVars, locksFrame, pcMain, rpc, changes, faults,
                   remaining, chan, fileCounter, workingStatus, pc, cur,
                   tarLock, lockVars>>

\* The loop is over. encode_tar_bz: tar_file.lock().unwrap().finish() and,
\* at the end, progress.finish (progress_lock); the caller of
\* process_tar_entries: finalize_progress (progress_lock). Each guard is
\* dropped within its statement.
orchestrator_finish ==
    /\ pcMain = IF mode = "fanout" THEN "par" ELSE "recv"
    /\ remaining = {} /\ chan = <<>>
    /\ \A w \in Workers : pc[w] = "idle"
    /\ tarLock = 0 /\ progressLock = 0
    /\ pcMain' = "done"
    /\ UNCHANGED <<constVars, locksFrame, statusMessage, rpc, spc, changes,
                   faults,
                   remaining, chan, fileCounter, workingStatus, pc, cur,
                   tarLock, statusLock, lockVars>>

\* After the collect pass of encode_tar_bz, or after the walker has sent
\* entries(); the renderer threads are running.
InitLocks ==
    /\ mode \in {"fanout", "channel"}
    /\ tree \in Trees
    /\ flen = [x \in Files(tree) |-> x]
    /\ changes = 0 /\ faults = 0 /\ errLog = <<>>
    /\ pcMain = IF mode = "fanout" THEN "par" ELSE "recv"
    /\ result = "none"
    /\ totalFiles = IF mode = "fanout" THEN count_pass(tree) ELSE num_files(tree)
    /\ fileCounter = 0
    /\ incs = [x \in Nodes(tree) |-> 0]
    /\ workingStatus = <<>>
    /\ entryVec = IF mode = "fanout" THEN collect_pass(tree) ELSE <<>>
    /\ remaining = 1..Len(entryVec)
    /\ pc = [w \in Workers |-> "idle"]
    /\ cur = [w \in Workers |-> NoEntry]
    /\ fsize = [w \in Workers |-> 0]
    /\ buf = [w \in Workers |-> 0]
    /\ tarLock = 0 /\ archive = <<>> /\ finishCalls = 0
    /\ chan = IF mode = "fanout" THEN <<>> ELSE entries(tree)
    /\ walkerPc = IF mode = "fanout" THEN "unborn" ELSE "done"
    /\ walkerQueue = <<>>
    /\ received = <<>>
    /\ TrackerFree
    /\ clock = 0 /\ lastUpdate = 0 /\ position = 0
    /\ cpc = [c \in Callers |-> "out"]
    /\ dur = [c \in Callers |-> 0]
    /\ nowAt = [c \in Callers |-> 0]
    /\ pre = [c \in Callers |-> [counter |-> 0, smoothed |-> None]]
    /\ rpc = IF mode = "fanout" THEN "unborn" ELSE "loop"
    /\ etaMessage = <<>> /\ etaSeen = <<>>
    /\ called = 0 /\ returned = 0
    /\ smoothed = None /\ accepted = {}
    /\ statusMessage = <<>> /\ prevMessage = <<>>
    /\ statusLock = 0
    /\ spc = "loop"

NextLocks ==
    \/ \E w \in Workers : entry_take(w)
    \/ \E w \in Workers : file_stat(w)
    \/ \E w \in Workers : file_status_lock(w)
    \/ \E w \in Workers : file_status_set(w)
    \/ \E w \in Workers : file_read(w)
    \/ \E w \in Workers : file_writer_lock(w)
    \/ \E w \in Workers : file_append(w)
    \/ \E w \in Workers : file_clear_lock(w)
    \/ \E w \in Workers : file_clear_set(w)
    \/ \E w \in Workers : directory_writer_lock(w)
    \/ \E w \in Workers : directory_status_lock(w)
    \/ \E w \in Workers : directory_status_set(w)
    \/ \E w \in Workers : directory_append_dir(w)
    \/ \E w \in Workers : directory_read_dir(w)
    \/ \E w \in Workers : increment_lock_progress(w)
    \/ \E w \in Workers : increment_lock_counter(w)
    \/ \E w \in Workers : increment_lock_last(w)
    \/ \E w \in Workers : increment_lock_smoothed(w)
    \/ \E w \in Workers : increment_return(w)
    \/ update_eta_lock_counter
    \/ update_eta_lock_smoothed
    \/ update_eta_render
    \/ status_thread_lock
    \/ status_thread_clone
    \/ orchestrator_finish

SpecLocks == InitLocks /\ [][NextLocks]_vars

\* ------------------------------------------------------------ vocabulary
Range(q) == { q[i] : i \in 1..Len(q) }

\* The run is over: encode_tar_bz has returned, or the caller of
\* process_tar_entries has finished the builder it got back.
RunEnded == pcMain = "done"

\* The entries handed to the Entry Processor in this run.
Enumerated == IF mode = "fanout" THEN Range(collect_pass(tree))
                                 ELSE Range(entries(tree))

EmptyDirs(t) == { d \in Dirs(t) : Children(t, d) = {} }
NonEmptyDirs(t) == { d \in Dirs(t) : Children(t, d) # {} }

FileRecordsOf(f) ==
    { i \in 1..Len(archive) : archive[i].kind = "file" /\ archive[i].name = f }
DirRecordsOf(d) ==
    { i \in 1..Len(archive) : archive[i].kind = "dir" /\ archive[i].name = d }

\* ------------------------------------------------------------ claims

\* C1: with the tree unchanged and no per-entry I/O error, when the run ends
\* the number of increment_total_progress calls (completed_count) equals the
\* total_entries of the counting pass.
C1_NoDrift ==
    (RunEnded /\ changes = 0 /\ faults = 0) => fileCounter = totalFiles

\* C2: when the run ends (no I/O error), every non-empty directory below the
\* root has caused zero increments and every empty directory exactly one.
C2_DirectoryIncrements ==
    (RunEnded /\ faults = 0) =>
        /\ \A d \in NonEmptyDirs(tree) : incs[d] = 0
        /\ \A d \in EmptyDirs(tree) : incs[d] = 1

\* C3: completed_count (file_counter) never decreases from one state to the
\* next and never exceeds total_entries (total_files), whatever the
\* interleaving of the workers.
C3_CounterMonotoneAndBounded ==
    [][/\ fileCounter <= totalFiles
       /\ fileCounter' >= fileCounter
       /\ fileCounter' <= totalFiles']_vars

\* C3 witness: in the fan-out run the counter has advanced and two workers
\* are about to call increment_total_progress.
C3_Witness ==
    /\ mode = "fanout" /\ fileCounter >= 1
    /\ \E w \in Workers : pc[w] = "incr"
    /\ fileCounter < totalFiles

\* C4: in encode_tar_bz, finish() of the tar::Builder is called exactly once
\* per run, and only when no worker can append any more.
C4_FinishOnceAfterLastAppend ==
    mode = "fanout" =>
        /\ finishCalls <= 1
        /\ RunEnded => finishCalls = 1
        /\ finishCalls > 0 =>
              remaining = {} /\ \A w \in Workers : pc[w] = "idle"

\* C5: when the run ends, every regular file (whose processing met no I/O
\* error) has exactly one file entry in the archive, and the header size of
\* that entry equals the length of its content.
C5_OneEntryPerFile ==
    RunEnded =>
        \A f \in Files(tree) :
            f \notin Range(errLog) =>
                /\ Cardinality(FileRecordsOf(f)) = 1
                /\ \A i \in FileRecordsOf(f) : archive[i].size = archive[i].data

\* C6: the counting pass yields (regular files) + (empty directories below
\* the root); for the scenario tree (a.txt, b/b.txt, c/) it yields 3.
C6_CountIsFilesPlusEmptyDirs ==
    pcMain # "count" =>
        /\ totalFiles = Cardinality(Files(tree)) + Cardinality(EmptyDirs(tree))
        /\ tree = ScenarioTree => totalFiles = 3

\* C7: when the run ends (no I/O error), the archive holds a directory entry
\* for every directory below the root, with content or empty.
C7_EveryDirectoryHasEntry ==
    (RunEnded /\ faults = 0) =>
        \A d \in Dirs(tree) : DirRecordsOf(d) # {}

\* The orchestration has gone past the per-entry loop.
LoopOver == pcMain \in {"unwrap", "encoder_finish", "join", "returned", "done"}

\* C8: a per-entry I/O error is only logged: the run is never stuck before
\* its end; once the loop is over every entry handed to the Entry Processor
\* has been dealt with, each one that returned no error has its record in
\* the archive; the run ends with the archive finished and Ok(()).
C8_EntryErrorsAreOnlyLogged ==
    /\ RunEnded \/ ENABLED Next
    /\ LoopOver =>
          \A x \in Enumerated :
              x \notin Range(errLog) =>
                  IF is_file(tree, x) THEN Cardinality(FileRecordsOf(x)) = 1
                                      ELSE Cardinality(DirRecordsOf(x)) = 1
    /\ RunEnded => result = "ok" /\ finishCalls >= 1

\* C8 witness: a run that met an I/O error on one entry has ended with Ok
\* and another entry's record in the archive.
C8_Witness ==
    /\ RunEnded /\ result = "ok" /\ faults = 1
    /\ \E x \in Enumerated :
          /\ x # 0 /\ x \in Range(errLog)
          /\ \E i \in 1..Len(archive) : archive[i].name # x

\* The worker is in the part of the closure that holds the writer's guard.
HoldsGuard(w) == pc[w] \in {"append", "dirappend", "dirread"}

\* C9: in the fan-out run a worker is inside append / append_dir only while
\* it holds the writer's mutex, no two workers are there at once, and the
\* mutex is held only inside one entry's append section.
C9_AppendsUnderWriterMutex ==
    /\ \A w \in Workers : HoldsGuard(w) <=> tarLock = w
    /\ \A w1, w2 \in Workers : HoldsGuard(w1) /\ HoldsGuard(w2) => w1 = w2
    /\ \A w \in Workers : tarLock = w => cur[w] # NoEntry

\* C9 witness: one worker is inside append while another waits for the mutex.
C9_Witness ==
    \E w1, w2 \in Workers :
        /\ pc[w1] = "append" /\ tarLock = w1
        /\ pc[w2] \in {"lock", "lockdir"}

\* C10: the size written into a file entry's header equals the length of
\* the buffer appended with it, also when the file's length changed between
\* the stat and the read.
C10_HeaderSizeIsBufferLength ==
    \A i \in 1..Len(archive) :
        archive[i].kind = "file" => archive[i].size = archive[i].data

\* C11: completed_count (file_counter) changes only by steps of +1, and
\* once the per-entry loop is over it has advanced by exactly 1 for every
\* regular file handed to the Entry Processor, appended or skipped after an
\* I/O error.
C11_OneIncrementPerHandledEntry ==
    [][/\ fileCounter' \in {fileCounter, fileCounter + 1}
       /\ LoopOver' =>
             \A f \in Files(tree) \cap Enumerated : incs'[f] = 1]_vars

\* What the archive holds, without the order of the entries.
ArchiveContent ==
    { <<archive[i].name, archive[i].kind, archive[i].data>> :
          i \in 1..Len(archive) }

\* What the source tree alone says the archive holds: one entry per path
\* handed to the Entry Processor (the root has no name in the archive), a
\* file's content being the file's.
TreeContent ==
    { <<x, IF is_file(tree, x) THEN "file" ELSE "dir",
           IF is_file(tree, x) THEN flen[x] ELSE 0>> : x \in Enumerated \ {0} }

\* C12: when a run over an unmodified tree (without I/O error) ends, the
\* set of entry names of the archive and the content of each entry are
\* those given by the tree alone, the same for every scheduling of the
\* threads and so for any two runs; no name comes twice.
C12_ArchiveIsFunctionOfTree ==
    (RunEnded /\ changes = 0 /\ faults = 0) =>
        /\ \A i \in 1..Len(archive) :
              archive[i].name # 0 =>
                  <<archive[i].name, archive[i].kind, archive[i].data>>
                      \in TreeContent
        /\ \A c \in TreeContent :
              Cardinality({ i \in 1..Len(archive) : archive[i].name = c[1] }) = 1
        /\ TreeContent \subseteq ArchiveContent

\* C12 witness: a fan-out run over an unmodified tree with two files has
\* ended without I/O error, both files in the archive.
C12_Witness ==
    /\ RunEnded /\ changes = 0 /\ faults = 0 /\ mode = "fanout"
    /\ Cardinality(Files(tree)) >= 2
    /\ \A f \in Files(tree) : FileRecordsOf(f) # {}

\* The calls of increment_total_progress that have written the counter and
\* not yet returned.
MidUpdate == { c \in Callers : cpc[c] \in {"now", "branch", "smooth", "ret"} }

\* The call of c is about to return (its guards not yet dropped).
AtReturn(c) == cpc[c] = "ret"

\* A smoothed average <<num, exp>> in units of SmoothingDen^(-k) ms, k >= exp.
Scaled(sm, k) == sm[1] * Pow(SmoothingDen, k - sm[2])

\* C13: when a call of increment_total_progress that measured an elapsed
\* time below 10 ms or above 30 s returns, the smoothed average is what it
\* was when the call began (absent if it was absent), the counter is one
\* more than it was, and last_update_time is the time the call read.
C13_ImplausibleSampleIsDropped ==
    \A c \in Callers :
        (AtReturn(c) /\ (dur[c] < TooFastMs \/ dur[c] > TooSlowMs)) =>
            /\ smoothed = pre[c].smoothed
            /\ fileCounter = pre[c].counter + 1
            /\ lastUpdate = nowAt[c] /\ nowAt[c] = clock

\* C13 witness: a call that measured more than 30 s is about to return,
\* a smoothed average being present.
C13_Witness ==
    \E c \in Callers :
        AtReturn(c) /\ dur[c] > TooSlowMs /\ pre[c].smoothed # None

\* C14: when a call that measured an elapsed time within [10 ms, 30 s]
\* returns, the smoothed average is that time if there was none, and
\* otherwise 5 * new = elapsed + 4 * previous (0.2 and 0.8); a smoothed
\* average that is present lies between the smallest and the largest
\* accepted sample, all of them within [10 ms, 30 s].
C14_SmoothedIsWeightedAverage ==
    /\ \A c \in Callers :
          (AtReturn(c) /\ dur[c] >= TooFastMs /\ dur[c] <= TooSlowMs) =>
              /\ smoothed # None
              /\ IF pre[c].smoothed = None
                    THEN Scaled(smoothed, smoothed[2]) =
                             Scaled(<<dur[c], 0>>, smoothed[2])
                    ELSE /\ smoothed[2] >= pre[c].smoothed[2]
                         /\ 5 * Scaled(smoothed, smoothed[2]) =
                                Scaled(<<dur[c], 0>>, smoothed[2])
                                  + 4 * Scaled(pre[c].smoothed, smoothed[2])
    /\ smoothed # None =>
          /\ \E a \in accepted : Scaled(<<a, 0>>, smoothed[2]) <= smoothed[1]
          /\ \E a \in accepted : smoothed[1] <= Scaled(<<a, 0>>, smoothed[2])
          /\ \A a \in accepted : a >= 10 /\ a <= 30000

\* C14 witness: a call whose sample differs from the smoothed average it
\* found is about to return.
C14_Witness ==
    \E c \in Callers :
        /\ AtReturn(c) /\ dur[c] >= TooFastMs /\ dur[c] <= TooSlowMs
        /\ pre[c].smoothed # None
        /\ Scaled(pre[c].smoothed, pre[c].smoothed[2])
              # Scaled(<<dur[c], 0>>, pre[c].smoothed[2])

\* The whole seconds a rendered ETA stands for.
SecondsOf(msg) ==
    IF msg[1] = "hours" THEN msg[2] * 3600 + msg[3] * 60 + msg[4]
    ELSE IF msg[1] = "minutes" THEN msg[2] * 60 + msg[3]
    ELSE msg[2]

\* The smoothed average sm clamped to [5 ms, 60 s], times n, in units of
\* SmoothingDen^(-sm[2]) ms.
ClampedTimes(sm, n) ==
    LET lo == Scaled(<<5, 0>>, sm[2])
        hi == Scaled(<<60000, 0>>, sm[2])
    IN  (IF sm[1] < lo THEN lo ELSE IF sm[1] > hi THEN hi ELSE sm[1]) * n

\* The step in which update_eta builds and shows its string.
RenderStep == rpc = "render" /\ rpc' = "loop"

\* The renderer says "calculating" exactly when the counter is below
\* min(10, total_files) or there is no smoothed average.
CalculatingIffTooEarly ==
    (etaMessage' = <<"calculating">>) <=>
        \/ fileCounter < (IF 10 < totalFiles THEN 10 ELSE totalFiles)
        \/ smoothed = None

\* C15 as stated: the renderer says "calculating" exactly when the counter
\* is below min(10, total_files) or there is no smoothed average; otherwise
\* the duration it shows equals the smoothed average clamped to
\* [0.005 s, 60 s] times (total_files - counter); no step of the renderer
\* changes the counter or the smoothed average.
C15_EtaIsClampedProduct ==
    [][/\ rpc' # rpc => fileCounter' = fileCounter /\ smoothed' = smoothed
       /\ RenderStep =>
             /\ CalculatingIffTooEarly
             /\ etaMessage' # <<"calculating">> =>
                   SecondsOf(etaMessage') * Scaled(<<1000, 0>>, smoothed[2])
                       = ClampedTimes(smoothed, totalFiles - fileCounter)]_vars

\* C15 amended: as C15, the duration shown being the clamped product cut
\* down to whole seconds.
C15_EtaIsClampedProductInWholeSeconds ==
    [][/\ rpc' # rpc => fileCounter' = fileCounter /\ smoothed' = smoothed
       /\ RenderStep =>
             /\ CalculatingIffTooEarly
             /\ etaMessage' # <<"calculating">> =>
                   /\ SecondsOf(etaMessage') * Scaled(<<1000, 0>>, smoothed[2])
                         <= ClampedTimes(smoothed, totalFiles - fileCounter)
                   /\ ClampedTimes(smoothed, totalFiles - fileCounter)
                         < (SecondsOf(etaMessage') + 1)
                               * Scaled(<<1000, 0>>, smoothed[2])]_vars

\* C15 witness: the renderer has shown 2 seconds for 2 entries left at
\* 1.2 s each, after the tenth entry of twelve.
C15_Witness ==
    /\ etaMessage = <<"seconds", 2>>
    /\ etaSeen = [counter |-> MinRequired, smoothed |-> <<1200, 0>>]
    /\ totalFiles > MinRequired

\* The counter when the tracker's specification starts.
StartCount == totalFiles - MaxSamples

\* C16: at most one call of increment_total_progress is between its write
\* of the counter and its return; the counter has grown by one for every
\* call that wrote it, so by k once k calls have been made and returned;
\* while the renderer holds the counter's mutex (it reads the smoothed
\* average only then) no call is between its write of the counter and its
\* return.
C16_IncrementsAreSerialized ==
    /\ Cardinality(MidUpdate) <= 1
    /\ fileCounter = StartCount + returned + Cardinality(MidUpdate)
    /\ called = returned => fileCounter = StartCount + called
    /\ counterLock = EtaThread => MidUpdate = {}
    /\ smoothedLock = EtaThread => counterLock = EtaThread

\* C16 witness: a call has returned, one is updating the smoothed average,
\* another one waits for progress_lock and the renderer for the counter.
C16_Witness ==
    /\ returned >= 1 /\ rpc = "loop"
    /\ \E c1, c2 \in Callers : cpc[c1] = "entry" /\ cpc[c2] = "smooth"

\* C17: once process_tar_entries has returned the builder, the walker has
\* sent every entry of entries() and is gone, the channel is empty, the
\* consumer has received exactly the entries sent, in their order, and has
\* dealt with each one once (one record at most, a record or a logged
\* error); from then on no step appends to the archive.
C17_ReturnAfterProducerAndConsumer ==
    [][(mode = "channel" /\ pcMain \in {"returned", "done"}) =>
          /\ walkerPc = "done" /\ walkerQueue = <<>> /\ chan = <<>>
          /\ received = entries(tree)
          /\ pc[Consumer] = "idle" /\ cur[Consumer] = NoEntry
          /\ \A x \in Range(received) :
                /\ Cardinality(FileRecordsOf(x) \cup DirRecordsOf(x)) <= 1
                /\ FileRecordsOf(x) \cup DirRecordsOf(x) # {}
                      \/ x \in Range(errLog)
          /\ archive' = archive]_vars

\* C17 witness: process_tar_entries has returned after the consumer
\* received two entries or more and appended to the archive.
C17_Witness ==
    /\ mode = "channel" /\ pcMain = "returned"
    /\ Len(received) >= 2 /\ archive # <<>>

\* process_tar_entries has handed the builder back.
Returned == pcMain \in {"returned", "done"}

\* C18: under fair scheduling every call of process_tar_entries returns
\* (so every wait of the consumer in its receive is answered, by an entry
\* or at last by the end of the channel, the loop having to end before the
\* return); with I/O errors on entries, and without any fairness for the
\* rounds of the renderer threads.
C18_ProcessTarEntriesReturns == <>Returned

\* C18 witness: process_tar_entries has returned from a run in which an
\* entry failed with an I/O error, update_eta being inside its block.
C18_Witness ==
    /\ pcMain = "returned" /\ faults >= 1
    /\ counterLock = EtaThread
    /\ Len(received) >= 2

\* C19: in the channel model, when process_tar_file has returned for a file
\* entry (Ok or Err) and the consumer waits for the next entry, the working
\* status does not name that entry.
C19_StatusClearedAfterFile ==
    (/\ mode = "channel" /\ pc[Consumer] = "idle" /\ received # <<>>
     /\ is_file(tree, received[Len(received)])) =>
        workingStatus # <<"file", received[Len(received)]>>

\* C20: the count pass and the collect pass select the same paths: num_files
\* equals the length of entries, and in encode_tar_bz total_files equals the
\* length of the collected Vec.
C20_CountEqualsCollect ==
    /\ num_files(tree) = Len(entries(tree))
    /\ (mode = "fanout" /\ pcMain \notin {"count", "collect"}) =>
          totalFiles = Len(entryVec)

\* C21: every entry in the hands of the Entry Processor is a path of the
\* tree below the source root (so strip_prefix succeeds and the relative
\* path is not empty); the root itself is never an entry.
C21_RootIsNeverAnEntry ==
    \A w \in Workers :
        cur[w] # NoEntry => cur[w] \in Nodes(tree) /\ cur[w] # 0

\* C23: in encode_tar_bz, once the parallel loop has ended the writer's
\* mutex is free and no worker uses the shared handle any more, every
\* entry having been taken and dealt with; try_unwrap succeeds and the run
\* never returns "Multiple tar writers still in use!".
C23_WriterIsSoleOwnedAfterLoop ==
    /\ result # "err"
    /\ (mode = "fanout" /\ pcMain \in {"unwrap", "encoder_finish", "done"}) =>
          tarLock = 0 /\ writer_users = {} /\ remaining = {}

\* C23 witness: try_unwrap has succeeded after a loop over two entries or
\* more, both pool threads having worked.
C23_Witness ==
    /\ mode = "fanout" /\ pcMain = "encoder_finish"
    /\ Len(entryVec) >= 2 /\ Len(archive) >= 2

\* ------------------------------------------------------------ C22
Locks == {"writer", "progress", "counter", "last", "smoothed", "status"}

Holder(l) ==
    CASE l = "writer" -> tarLock
      [] l = "progress" -> progressLock
      [] l = "counter" -> counterLock
      [] l = "last" -> lastLock
      [] l = "smoothed" -> smoothedLock
      [] l = "status" -> statusLock

\* The order the sentence gives to the five locks it orders.
Rank(l) ==
    CASE l = "writer" -> 1
      [] l = "progress" -> 2
      [] l = "counter" -> 3
      [] l = "last" -> 4
      [] l = "smoothed" -> 5
      [] l = "status" -> 6

Threads == Workers \cup {EtaThread, StatusThread, MainThread}

Held(t) == { l \in Locks : Holder(l) = t }

\* The lock a thread is blocked on or about to request, "none" otherwise.
Waits(t) ==
    IF t \in Workers THEN
        CASE pc[t] \in {"f_status_lock", "f_clear_lock", "d_status_lock"} -> "status"
          [] pc[t] \in {"f_writer_lock", "d_writer_lock"} -> "writer"
          [] pc[t] = "inc_progress" -> "progress"
          [] pc[t] = "inc_counter" -> "counter"
          [] pc[t] = "inc_last" -> "last"
          [] pc[t] = "inc_smoothed" -> "smoothed"
          [] OTHER -> "none"
    ELSE IF t = EtaThread THEN
        CASE rpc = "loop" -> "counter"
          [] rpc = "smoothed" -> "smoothed"
          [] OTHER -> "none"
    ELSE IF t = StatusThread THEN
        (IF spc = "loop" THEN "status" ELSE "none")
    ELSE "none"

\* The thread that t waits for: the holder of the lock t requests, 0 if t
\* requests nothing or the lock is free.
WaitsFor(t) == IF Waits(t) = "none" THEN 0 ELSE Holder(Waits(t))

\* The chain of waiting that starts at t is at least k threads long.
RECURSIVE ChainFrom(_, _)
ChainFrom(t, k) ==
    IF t \notin Threads THEN FALSE
    ELSE IF k = 0 THEN TRUE
    ELSE ChainFrom(WaitsFor(t), k - 1)

\* A thread waits for one lock and a lock has one holder, so a set of
\* threads that wait for each other exists exactly if some chain of
\* waiting never ends, that is, is longer than the number of threads.
NoDeadlock == \A t \in Threads : ~ChainFrom(t, Cardinality(Threads))

\* A thread that is between two pieces of work holds nothing: a worker
\* between two entries, a renderer that sleeps.
SleepersHoldNothing ==
    /\ \A w \in Workers : pc[w] = "idle" => Held(w) = {}
    /\ rpc \in {"unborn", "loop"} => Held(EtaThread) = {}
    /\ spc = "loop" => Held(StatusThread) = {}
    /\ Held(MainThread) = {}

\* The step takes lock l for thread t.
Acquires(t, l) == Holder(l)' = t /\ Holder(l) # t

\* A lock is taken only above every lock the thread holds.
OrderedStep ==
    \A t \in Threads : \A l \in Locks \ {"status"} :
        Acquires(t, l) => \A m \in Held(t) : Rank(m) < Rank(l)

\* working_status is taken by a thread that holds nothing and nothing is
\* taken while it is held.
StatusAloneStep ==
    \A t \in Threads :
        /\ Acquires(t, "status") => Held(t) = {}
        /\ \A l \in Locks \ {"status"} : Acquires(t, l) => "status" \notin Held(t)

\* working_status is taken last: at most the writer is held then, and
\* nothing is taken while working_status is held.
StatusLastStep ==
    \A t \in Threads :
        /\ Acquires(t, "status") => Held(t) \subseteq {"writer"}
        /\ \A l \in Locks \ {"status"} : Acquires(t, l) => "status" \notin Held(t)

\* C22 as stated: no interleaving of the workers and the renderers
\* deadlocks, the five ordered locks are taken in the stated order,
\* working_status is never held together with another lock, and sleeping
\* renderers hold nothing.
C22_NoDeadlockStatusAlone ==
    [][/\ NoDeadlock' /\ SleepersHoldNothing'
       /\ OrderedStep /\ StatusAloneStep]_vars

\* C22 amended: no interleaving deadlocks, the five ordered locks are taken
\* in the stated order, working_status is always the last lock a thread
\* takes (a directory worker of the fan-out takes it while holding the
\* writer), and sleeping renderers hold nothing.
C22_NoDeadlockStatusLast ==
    [][/\ NoDeadlock' /\ SleepersHoldNothing'
       /\ OrderedStep /\ StatusLastStep]_vars

\* A directory worker inside increment_total_progress with the writer still
\* held, while another worker waits for the writer.
C22_Witness ==
    \E w \in Workers :
        /\ tarLock = w /\ counterLock = w /\ ~is_file(tree, cur[w])
        /\ \E v \in Workers \ {w} : Waits(v) = "writer"

====
